---- MODULE Spec2Model ----
(***************************************************************************)
(* webserver.go: three handlers (HomeHandler, ItemHandler, GenericHandler) *)
(* registered on an http.ServeMux and served by http.ListenAndServe.       *)
(*                                                                         *)
(* A Go string is modelled as a sequence of tokens: a request path is a    *)
(* sequence of one-character strings, a literal of the program is one      *)
(* token.  A response body is the sequence of tokens written so far.       *)
(***************************************************************************)
EXTENDS Naturals, Sequences, FiniteSets

(* ---------------------------------------------------------------- bounds *)

\* Longest tail appended to a path stem when requests are enumerated.
MaxTail == 2

\* Connections served concurrently in SpecConc.
MaxInFlight == 2

(* ------------------------------------------------------- string helpers *)

RECURSIVE SeqsUpTo(_, _)
SeqsUpTo(S, n) ==
    IF n = 0 THEN {<<>>}
    ELSE LET shorter == SeqsUpTo(S, n - 1)
         IN  shorter \cup {Append(s, c) : s \in shorter, c \in S}

HasPrefix(s, p) ==
    /\ Len(s) >= Len(p)
    /\ SubSeq(s, 1, Len(p)) = p

Contains(s, p) ==
    \E i \in 1..(Len(s) + 1) :
        /\ i + Len(p) - 1 <= Len(s)
        /\ SubSeq(s, i, i + Len(p) - 1) = p

RECURSIVE Join(_, _)
Join(parts, sep) ==
    IF Len(parts) = 0 THEN <<>>
    ELSE IF Len(parts) = 1 THEN parts[1]
    ELSE parts[1] \o sep \o Join(Tail(parts), sep)

(* ----------------------------------------------------- program literals *)

port == 8080

\* strconv.Itoa(port)
portstring == IF port = 8080 THEN "8080" ELSE "?"

HomePattern == <<"/", "h", "o", "m", "e">>
ItemPattern == <<"/", "i", "t", "e", "m", "/">>
GenericPattern == <<"/", "g", "e", "n", "e", "r", "i", "c", "/">>

\* The cookie http.Cookie{Name, Value}.String() renders.
CookieString == <<"testcookiename", "=", "testcookievalue">>

LongJSONData == <<"This is long JSON data for calculation for bytes.">>

(* --------------------------------------------- net/http: ServeMux lookup *)

\* strings.Split on a separator token.
RECURSIVE SplitAt(_, _, _, _, _)
SplitAt(s, sep, i, cur, acc) ==
    IF i > Len(s) THEN Append(acc, cur)
    ELSE IF s[i] = sep THEN SplitAt(s, sep, i + 1, <<>>, Append(acc, cur))
    ELSE SplitAt(s, sep, i + 1, Append(cur, s[i]), acc)

Split(s, sep) == SplitAt(s, sep, 1, <<>>, <<>>)

\* path.Clean of a rooted path: empty and "." elements are dropped, ".."
\* removes the element before it (and is dropped at the root).
RECURSIVE CleanSegs(_, _, _)
CleanSegs(segs, i, stack) ==
    IF i > Len(segs) THEN stack
    ELSE IF segs[i] = <<>> \/ segs[i] = <<".">> THEN CleanSegs(segs, i + 1, stack)
    ELSE IF segs[i] = <<".", ".">>
         THEN CleanSegs(segs, i + 1,
                        IF Len(stack) = 0 THEN stack
                        ELSE SubSeq(stack, 1, Len(stack) - 1))
    ELSE CleanSegs(segs, i + 1, Append(stack, segs[i]))

PathClean(p) == <<"/">> \o Join(CleanSegs(Split(p, "/"), 1, <<>>), <<"/">>)

\* net/http cleanPath: the canonical path, a trailing slash kept.
cleanPath(p) ==
    IF p = <<>> THEN <<"/">>
    ELSE LET q  == IF p[1] # "/" THEN <<"/">> \o p ELSE p
             np == PathClean(q)
         IN  IF q[Len(q)] = "/" /\ np # <<"/">> THEN np \o <<"/">> ELSE np

\* The patterns main registers, and the handler each is bound to.
Patterns == {HomePattern, ItemPattern, GenericPattern}

HandlerOf(pattern) ==
    IF pattern = HomePattern THEN "HomeHandler"
    ELSE IF pattern = ItemPattern THEN "ItemHandler"
    ELSE "GenericHandler"

\* ServeMux.match: an exact pattern first, then the longest registered
\* pattern ending in "/" that is a prefix of the path.
EveryPatternASubtree == Patterns

SubtreePatterns == {pt \in Patterns : pt[Len(pt)] = "/"}

MatchingSubtrees(path) == {pt \in SubtreePatterns : HasPrefix(path, pt)}

Longest(S) == CHOOSE pt \in S : \A o \in S : Len(o) <= Len(pt)

MuxMatchCatchAll(path) ==
    IF path \in Patterns THEN HandlerOf(path)
    ELSE IF MatchingSubtrees(path) # {} THEN HandlerOf(Longest(MatchingSubtrees(path)))
    ELSE "GenericHandler"

MuxMatch(path) ==
    IF path \in Patterns THEN HandlerOf(path)
    ELSE IF MatchingSubtrees(path) # {} THEN HandlerOf(Longest(MatchingSubtrees(path)))
    ELSE "NotFound"

\* ServeMux.redirectToPathSlash: path is not registered, path + "/" is.
ShouldRedirectToSlash(path) ==
    /\ path \notin Patterns
    /\ Len(path) > 0
    /\ (path \o <<"/">>) \in Patterns
    /\ path[Len(path)] # "/"

\* url.URL{Path, RawQuery}.String()
URLString(path, rawQuery) ==
    IF rawQuery = <<>> THEN path ELSE path \o <<"?">> \o rawQuery

\* ServeMux.Handler: what serves the request, and for a redirect its target.
MuxHandler(req) ==
    LET path == cleanPath(req.path)
    IN  IF ShouldRedirectToSlash(path)
        THEN [h |-> "Redirect", url |-> URLString(path \o <<"/">>, req.rawQuery)]
        ELSE IF path # req.path
        THEN [h |-> "Redirect", url |-> URLString(path, req.rawQuery)]
        ELSE [h |-> MuxMatch(req.path), url |-> <<>>]

(* ------------------------------------------------ regexp ^/item/(\w+)$ *)

\* RE2's \w: ASCII letters, digits and underscore.
WordChars ==
    {"a", "b", "c", "d", "e", "f", "g", "h", "i", "j", "k", "l", "m",
     "n", "o", "p", "q", "r", "s", "t", "u", "v", "w", "x", "y", "z",
     "A", "B", "C", "D", "E", "F", "G", "H", "I", "J", "K", "L", "M",
     "N", "O", "P", "Q", "R", "S", "T", "U", "V", "W", "X", "Y", "Z",
     "0", "1", "2", "3", "4", "5", "6", "7", "8", "9", "_"}

IsWord(tok) == Len(tok) >= 1 /\ \A i \in 1..Len(tok) : tok[i] \in WordChars

\* itemURL.FindStringSubmatch(path): <<whole match, group 1>>, or <<>> (nil).
FindStringSubmatch(path) ==
    IF HasPrefix(path, ItemPattern)
       /\ IsWord(SubSeq(path, Len(ItemPattern) + 1, Len(path)))
    THEN <<path, SubSeq(path, Len(ItemPattern) + 1, Len(path))>>
    ELSE <<>>

(* ------------------------------------------------------- encoding/json *)

\* A JSON string: quoted, with the characters encoding/json escapes.
JSONEscape(c) ==
    IF c = "\"" THEN "\\\""
    ELSE IF c = "\\" THEN "\\\\"
    ELSE IF c = "<" THEN "\\u003c"
    ELSE IF c = ">" THEN "\\u003e"
    ELSE IF c = "&" THEN "\\u0026"
    ELSE c

JSONString(s) == <<"\"">> \o [i \in 1..Len(s) |-> JSONEscape(s[i])] \o <<"\"">>

\* json.Marshal of the map data: keys in sorted order ("name" < "what").
MarshalData(d) ==
    <<"{">> \o JSONString(<<"name">>) \o <<":">> \o JSONString(d.name)
            \o <<",">>
            \o JSONString(<<"what">>) \o <<":">> \o JSONString(d.what)
            \o <<"}">>

\* json.Marshal of a []string.
MarshalStrings(ss) ==
    <<"[">> \o Join([i \in 1..Len(ss) |-> JSONString(ss[i])], <<",">>) \o <<"]">>

(* ------------------------------------ net/url ParseQuery, Request.ParseForm *)

BadEscape == "%zz"

QueryUnescapeFails(tok) == tok = BadEscape

\* url.QueryUnescape: "+" decodes to a space.
QueryUnescape(tok) == IF tok = "light+blue" THEN "light blue" ELSE tok

\* strings.Cut(item, "="): <<key, value>>.
CutEq(item) ==
    LET parts == Split(item, "=")
    IN  <<parts[1], IF Len(parts) >= 2 THEN parts[2] ELSE <<>>>>

ItemKey(item) == IF CutEq(item)[1] = <<>> THEN "" ELSE CutEq(item)[1][1]

ItemValue(item) == IF CutEq(item)[2] = <<>> THEN "" ELSE CutEq(item)[2][1]

ItemFails(item) ==
    QueryUnescapeFails(ItemKey(item)) \/ QueryUnescapeFails(ItemValue(item))

\* url.ParseQuery: every well-formed item is added to the map; the first
\* malformed one is the error returned, and parsing goes on after it.
RECURSIVE ParseItems(_, _, _)
ParseItems(items, i, m) ==
    IF i > Len(items) THEN m
    ELSE IF items[i] = <<>> \/ ItemFails(items[i]) THEN ParseItems(items, i + 1, m)
    ELSE LET k == QueryUnescape(ItemKey(items[i]))
             v == QueryUnescape(ItemValue(items[i]))
             old == IF k \in DOMAIN m THEN m[k] ELSE <<>>
         IN  ParseItems(items, i + 1,
                 [x \in DOMAIN m \cup {k} |-> IF x = k THEN Append(old, v) ELSE m[x]])

EmptyForm == [x \in {} |-> <<>>]

ParseQueryForm(rawQuery) ==
    IF rawQuery = <<>> THEN EmptyForm
    ELSE ParseItems(Split(rawQuery, "&"), 1, EmptyForm)

ParseQueryErr(rawQuery) ==
    IF rawQuery # <<>> /\ \E i \in 1..Len(Split(rawQuery, "&")) :
                              ItemFails(Split(rawQuery, "&")[i])
    THEN <<"invalid URL escape ", "\"", BadEscape, "\"">>
    ELSE <<>>

(* ------------------------------------------------------ fmt %v renderings *)

\* fmt prints a map with its keys sorted; the keys the model's queries use.
KeyOrder == <<"color", "size">>

FmtValues(vs) == <<"[">> \o Join([i \in 1..Len(vs) |-> <<vs[i]>>], <<" ">>) \o <<"]">>

FmtForm(form) ==
    LET present == SelectSeq(KeyOrder, LAMBDA k : k \in DOMAIN form)
    IN  <<"map[">>
        \o Join([i \in 1..Len(present) |->
                    <<present[i], ":">> \o FmtValues(form[present[i]])], <<" ">>)
        \o <<"]">>

\* %v of []*http.Cookie: each cookie through its String method.
FmtCookies(cs) == <<"[">> \o Join(cs, <<" ">>) \o <<"]">>

(* ------------------------------------------------- http.ResponseWriter *)

HeaderKeys == {"Content-Type", "Set-Cookie", "X-Content-Type-Options",
               "Content-Length", "Location"}

EmptyHeader == [k \in HeaderKeys |-> <<>>]

\* textproto.CanonicalMIMEHeaderKey, on the keys the program uses.
CanonicalKey(k) == IF k = "Content-type" THEN "Content-Type" ELSE k

\* A response nothing was written to: status 0 stands for "not yet sent".
NewResponse ==
    [status |-> 0, header |-> EmptyHeader, wroteHeader |-> FALSE,
     sent |-> EmptyHeader, body |-> <<>>]

HeaderSet(w, k, v) == [w EXCEPT !.header[CanonicalKey(k)] = <<v>>]

HeaderAdd(w, k, v) == [w EXCEPT !.header[CanonicalKey(k)] = Append(@, v)]

HeaderDel(w, k) == [w EXCEPT !.header[CanonicalKey(k)] = <<>>]

\* WriteHeader: the first call fixes the status and sends the headers as they
\* are then; a later call changes nothing.
WriteHeader(w, code) ==
    IF w.wroteHeader THEN w
    ELSE [w EXCEPT !.wroteHeader = TRUE, !.status = code, !.sent = w.header]

\* Write, and fmt.Fprint / Fprintf on the writer: an implicit WriteHeader(200).
Write(w, bytes) == [WriteHeader(w, 200) EXCEPT !.body = @ \o bytes]

\* http.Error(w, error, code)
HttpError(w, error, code) ==
    LET h1 == HeaderDel(w, "Content-Length")
        h2 == HeaderSet(h1, "Content-Type", <<"text/plain; charset=utf-8">>)
        h3 == HeaderSet(h2, "X-Content-Type-Options", <<"nosniff">>)
    IN  Write(WriteHeader(h3, code), error \o <<"\n">>)

\* http.NotFound, the handler the mux uses when no pattern matches.
NotFoundText == <<"404 page not found">>

NotFoundCode == 404

NotFound(w) == HttpError(w, NotFoundText, NotFoundCode)

\* http.Redirect(w, r, url, 301), the mux's RedirectHandler.
MovedPermanently == 301

Redirect(w, method, url) ==
    LET hadCT == w.header["Content-Type"] # <<>>
        h1 == HeaderSet(w, "Location", url)
        h2 == IF ~hadCT /\ method = "GET"
              THEN HeaderSet(h1, "Content-Type", <<"text/html; charset=utf-8">>)
              ELSE h1
        h3 == WriteHeader(h2, MovedPermanently)
    IN  IF ~hadCT /\ method = "GET"
        THEN Write(h3, <<"<a href=\"">> \o url
                       \o <<"\">", "Moved Permanently", "</a>.\n", "\n">>)
        ELSE h3

(* ---------------------------------------------------------- SetMyCookie *)

SetNoCookie(w) == w

SetMyCookie(w) == HeaderAdd(w, "Set-Cookie", CookieString)

(* ------------------------------------------------------------ the state *)

VARIABLES
    mainpc,      \* where main is: "start", "listen", "serving", "failed", "exited"
    logged,      \* what main has logged
    exitCode,    \* the process's exit status once mainpc = "exited"
    listens,     \* calls of http.ListenAndServe so far
    homeFile,    \* home.html in the working directory
    conn,        \* per connection: the request and the handler's locals
    resp         \* per connection: the ResponseWriter

vars == <<mainpc, logged, exitCode, listens, homeFile, conn, resp>>

NoRequest == [method |-> "", path |-> <<>>, rawQuery |-> <<>>, cookies |-> <<>>]

NoData == [what |-> <<>>, name |-> <<>>]

IdleConn ==
    [pc |-> "idle", req |-> NoRequest, h |-> "", url |-> <<>>,
     webpage |-> <<>>, fileRead |-> <<>>, err |-> <<>>, form |-> EmptyForm,
     line |-> 0, itemMatches |-> <<>>, data |-> NoData,
     json_bytes |-> <<>>, json_all |-> <<>>, runs |-> 0]

(* ------------------------------------------------------------- inputs *)

TailChars == {"a", "7", "_", "-", "/", "."}

Stems ==
    {HomePattern, ItemPattern, GenericPattern,
     <<"/", "i", "t", "e", "m">>,
     <<"/", "g", "e", "n", "e", "r", "i", "c">>,
     <<"/", "o", "t", "h", "e", "r">>,
     <<"/">>}

Paths == {stem \o tail : stem \in Stems, tail \in SeqsUpTo(TailChars, MaxTail)}

\* method, raw query and Cookie header of the requests enumerated.
Shapes ==
    {[method |-> "GET",  rawQuery |-> <<>>, cookies |-> <<>>],
     [method |-> "GET",  rawQuery |-> <<"color", "=", "purple">>,
      cookies |-> <<CookieString>>],
     [method |-> "POST", rawQuery |-> <<"%zz">>, cookies |-> <<>>],
     [method |-> "GET",
      rawQuery |-> <<"color", "=", "light+blue", "&", "%zz", "=", "1", "&",
                     "size", "=", "7", "&", "color", "=", "red">>,
      cookies |-> <<CookieString>>]}

MakeRequest(shape, path) ==
    [method |-> shape.method, path |-> path, rawQuery |-> shape.rawQuery,
     cookies |-> shape.cookies]

Requests == {MakeRequest(sh, p) : sh \in Shapes, p \in Paths}

\* Request.RequestURI: the request target as the client sent it.
RequestURI(req) == URLString(req.path, req.rawQuery)

\* Contents home.html may have.
FileContents ==
    {<<>>,
     <<"<html>", "{{.}}", "</html>", "\n">>,
     <<"<p>", "home.html file error", "</p>">>}

NoFile == [exists |-> FALSE, data |-> <<>>]

FileStates == {NoFile} \cup {[exists |-> TRUE, data |-> d] : d \in FileContents}

\* home.html in SpecConc: missing, or one short page.
ConcFileStates == {NoFile, [exists |-> TRUE, data |-> <<"<html>">>]}

(* ----------------------------------------------------- ioutil.ReadFile *)

Prefixes(d) == {SubSeq(d, 1, n) : n \in 0..Len(d)}

\* What ReadFile("home.html") may return: the whole file; or an error with
\* no data (missing, not permitted); or an error part-way, with the bytes
\* read before it.
ReadOutcomes(file) ==
    IF ~file.exists
    THEN {[data |-> <<>>,
           err |-> <<"open home.html: no such file or directory">>]}
    ELSE {[data |-> file.data, err |-> <<>>],
          [data |-> <<>>, err |-> <<"open home.html: permission denied">>]}
         \cup {[data |-> d, err |-> <<"read home.html: input/output error">>] :
                  d \in Prefixes(file.data)}

(* --------------------------------------------------------------- main *)

\* Connection slots: one in Spec, MaxInFlight in SpecConc.
SingleConn == {1}

ConcConns == 1..MaxInFlight

Init ==
    /\ mainpc = "start"
    /\ logged = <<>>
    /\ exitCode = 0
    /\ listens = 0
    /\ homeFile \in FileStates
    /\ conn = [c \in SingleConn |-> IdleConn]
    /\ resp = [c \in SingleConn |-> NewResponse]

InitConc ==
    /\ mainpc = "start"
    /\ logged = <<>>
    /\ exitCode = 0
    /\ listens = 0
    /\ homeFile \in ConcFileStates
    /\ conn = [c \in ConcConns |-> IdleConn]
    /\ resp = [c \in ConcConns |-> NewResponse]

\* log.Print("Listening on port 8080 ... ")
LogListening ==
    /\ mainpc = "start"
    /\ logged' = Append(logged, <<"Listening on port ", portstring, " ... ">>)
    /\ mainpc' = "listen"
    /\ UNCHANGED <<exitCode, listens, homeFile, conn, resp>>

\* http.ListenAndServe binds the port and serves; it does not return.
ListenOK ==
    /\ mainpc = "listen"
    /\ listens' = listens + 1
    /\ mainpc' = "serving"
    /\ UNCHANGED <<logged, exitCode, homeFile, conn, resp>>

\* ListenAndServe is called once; when it returns its error, main goes on
\* to the if err != nil block.
RetryListen == "listen"

AfterListenError == "failed"

\* http.ListenAndServe cannot bind the port and returns the error.
ListenFail ==
    /\ mainpc = "listen"
    /\ listens' = listens + 1
    /\ mainpc' = AfterListenError
    /\ UNCHANGED <<logged, exitCode, homeFile, conn, resp>>

\* log.Fatal("ListenAndServe error: ", err): logs, then os.Exit(1).
FatalExitCode == 1

LogFatal ==
    /\ mainpc = "failed"
    /\ logged' = Append(logged, <<"ListenAndServe error: ", "bind: address already in use">>)
    /\ mainpc' = "exited"
    /\ exitCode' = FatalExitCode
    /\ UNCHANGED <<listens, homeFile, conn, resp>>

(* ------------------------------------------------------ the file system *)

\* Something outside the server replaces or removes home.html.
ChangeFile(F) ==
    /\ \E f \in F : f # homeFile /\ homeFile' = f
    /\ UNCHANGED <<mainpc, logged, exitCode, listens, conn, resp>>

(* ------------------------------------------------- the server's dispatch *)

At(c, pc) == conn[c].pc = pc

Step(c, newconn, newresp) ==
    /\ conn' = [conn EXCEPT ![c] = newconn]
    /\ resp' = [resp EXCEPT ![c] = newresp]
    /\ UNCHANGED <<mainpc, logged, exitCode, listens, homeFile>>

Goto(c, pc) == [conn[c] EXCEPT !.pc = pc]

\* The server reads a request from a connection; requests are served only
\* while ListenAndServe is serving.
Accept(c, R) ==
    /\ mainpc = "serving"
    /\ At(c, "idle")
    /\ \E req \in R :
          Step(c, [IdleConn EXCEPT !.pc = "dispatch", !.req = req],
               NewResponse)

FirstPC(h) ==
    IF h = "HomeHandler" THEN "H_ctype"
    ELSE IF h = "ItemHandler" THEN "I_cookie"
    ELSE IF h = "GenericHandler" THEN "G_cookie"
    ELSE h

\* mux.ServeHTTP: pick the handler for the request.
Dispatch(c) ==
    /\ At(c, "dispatch")
    /\ LET m == MuxHandler(conn[c].req)
       IN  Step(c, [conn[c] EXCEPT !.pc = FirstPC(m.h), !.h = m.h, !.url = m.url,
                                    !.runs = @ + 1],
                resp[c])

ServeNotFound(c) ==
    /\ At(c, "NotFound")
    /\ Step(c, Goto(c, "return"), NotFound(resp[c]))

ServeRedirect(c) ==
    /\ At(c, "Redirect")
    /\ Step(c, Goto(c, "return"),
            Redirect(resp[c], conn[c].req.method, conn[c].url))

\* The handler has returned: the server sends status 200 if nothing was sent.
Finish(c) ==
    /\ At(c, "return")
    /\ Step(c, Goto(c, "done"), WriteHeader(resp[c], 200))

\* The response is flushed; the connection is free for the next request.
Close(c) ==
    /\ At(c, "done")
    /\ Step(c, IdleConn, NewResponse)

(* ------------------------------------------------------ GenericHandler *)

GenericCookie(c) ==
    /\ At(c, "G_cookie")
    /\ Step(c, Goto(c, "G_ctype"), SetMyCookie(resp[c]))

GenericContentType(c) ==
    /\ At(c, "G_ctype")
    /\ Step(c, Goto(c, "G_parse"),
            HeaderSet(resp[c], "Content-type", <<"text/plain">>))

\* err := request.ParseForm(); request.Form holds what did parse.
GenericParseForm(c) ==
    /\ At(c, "G_parse")
    /\ LET err == ParseQueryErr(conn[c].req.rawQuery)
       IN  Step(c, [conn[c] EXCEPT !.form = ParseQueryForm(conn[c].req.rawQuery),
                                   !.err = err,
                                   !.pc = IF err # <<>> THEN "G_error" ELSE "G_dump"],
                resp[c])

\* if err != nil { http.Error(...) }: the block has no return, so the
\* handler goes on to the dump.
AfterParseError == "G_dump"

GenericError(c) ==
    /\ At(c, "G_error")
    /\ Step(c, Goto(c, AfterParseError),
            HttpError(resp[c], <<"error parsing url ">> \o conn[c].err, 500))

\* The six Fprint / Fprintf calls, in order.
DumpLine(req, form, n) ==
    IF n = 0 THEN <<"FooWebHandler says ... \n">>
    ELSE IF n = 1 THEN <<" request.Method     '", req.method, "'\n">>
    ELSE IF n = 2 THEN <<" request.RequestURI '">> \o RequestURI(req) \o <<"'\n">>
    ELSE IF n = 3 THEN <<" request.URL.Path   '">> \o req.path \o <<"'\n">>
    ELSE IF n = 4 THEN <<" request.Form       '">> \o FmtForm(form) \o <<"'\n">>
    ELSE <<" request.Cookies()  '">> \o FmtCookies(req.cookies) \o <<"'\n">>

LastDumpLine == 5

GenericDump(c) ==
    /\ At(c, "G_dump")
    /\ LET n == conn[c].line
       IN  Step(c, [conn[c] EXCEPT !.line = n + 1,
                                   !.pc = IF n = LastDumpLine THEN "return" ELSE "G_dump"],
                Write(resp[c], DumpLine(conn[c].req, conn[c].form, n)))

(* --------------------------------------------------------- HomeHandler *)

HomeContentType(c) ==
    /\ At(c, "H_ctype")
    /\ Step(c, Goto(c, "H_read"),
            HeaderSet(resp[c], "Content-type", <<"text/html; charset=utf-8">>))

\* webpage, err := ioutil.ReadFile("home.html")
HomeReadFile(c) ==
    /\ At(c, "H_read")
    /\ \E r \in ReadOutcomes(homeFile) :
          Step(c, [conn[c] EXCEPT !.webpage = r.data, !.err = r.err,
                                  !.fileRead = <<homeFile>>,
                                  !.pc = IF r.err # <<>> THEN "H_error" ELSE "H_write"],
               resp[c])

\* http.Error(response, "home.html file error <err>", 500); no return here
\* either: the Fprint of webpage follows.
HomeErrorDropped(w, err) == w

HomeErrorResponse(w, err) ==
    HttpError(w, <<"home.html file error", " ">> \o err, 500)

HomeError(c) ==
    /\ At(c, "H_error")
    /\ Step(c, Goto(c, "H_write"), HomeErrorResponse(resp[c], conn[c].err))

\* fmt.Fprint(response, string(webpage))
HomeBodyLine(webpage) == webpage \o <<"\n">>

HomeBody(webpage) == webpage

HomeWrite(c) ==
    /\ At(c, "H_write")
    /\ Step(c, Goto(c, "return"), Write(resp[c], HomeBody(conn[c].webpage)))

(* --------------------------------------------------------- ItemHandler *)

ItemCookie(c) ==
    /\ At(c, "I_cookie")
    /\ Step(c, Goto(c, "I_ctype"), SetMyCookie(resp[c]))

ItemContentType(c) ==
    /\ At(c, "I_ctype")
    /\ Step(c, Goto(c, "I_data"),
            HeaderSet(resp[c], "Content-type", <<"application/json">>))

\* data := map[string]string{"what": "item", "name": ""}: a map of its own
\* for each invocation.
ItemData(c) ==
    /\ At(c, "I_data")
    /\ Step(c, [conn[c] EXCEPT !.data = [what |-> <<"item">>, name |-> <<>>],
                               !.pc = "I_match"],
            resp[c])

ItemMatch(c) ==
    /\ At(c, "I_match")
    /\ LET m == FindStringSubmatch(conn[c].req.path)
       IN  Step(c, [conn[c] EXCEPT !.itemMatches = m,
                                   !.pc = IF Len(m) > 0 THEN "I_name" ELSE "I_error"],
                resp[c])

\* data["name"] = itemMatches[1], on the invocation's own map.
SetNameWholeMatch(c, name) ==
    [conn EXCEPT ![c].data.name = conn[c].itemMatches[1], ![c].pc = "I_marshal"]

SetNameShared(c, name) ==
    [d \in DOMAIN conn |->
        [conn[d] EXCEPT !.data.name = name,
                        !.pc = IF d = c THEN "I_marshal" ELSE @]]

SetName(c, name) == [conn EXCEPT ![c].data.name = name, ![c].pc = "I_marshal"]

ItemName(c) ==
    /\ At(c, "I_name")
    /\ conn' = SetName(c, conn[c].itemMatches[2])
    /\ UNCHANGED <<mainpc, logged, exitCode, listens, homeFile, resp>>

\* dataall := append(itemMatches, "This is long ..."), and the two Marshals.
ItemMarshal(c) ==
    /\ At(c, "I_marshal")
    /\ LET dataall == Append(conn[c].itemMatches, LongJSONData)
       IN  Step(c, [conn[c] EXCEPT !.json_bytes = MarshalData(conn[c].data),
                                   !.json_all = MarshalStrings(dataall),
                                   !.pc = "I_write1"],
                resp[c])

ItemWrite1(c) ==
    /\ At(c, "I_write1")
    /\ Step(c, Goto(c, "I_write2"), Write(resp[c], conn[c].json_bytes \o <<"\n">>))

ItemWrite2(c) ==
    /\ At(c, "I_write2")
    /\ Step(c, Goto(c, "return"), Write(resp[c], conn[c].json_all \o <<"\n">>))

ItemErrorOwnText(w) == HttpError(w, <<"item not found">>, 404)

ItemErrorResponse(w) == HttpError(w, <<"404 page not found">>, 404)

ItemError(c) ==
    /\ At(c, "I_error")
    /\ Step(c, Goto(c, "return"), ItemErrorResponse(resp[c]))

(* ------------------------------------------------------ specifications *)

Handle(c) ==
    \/ Dispatch(c)
    \/ ServeNotFound(c)
    \/ ServeRedirect(c)
    \/ GenericCookie(c)
    \/ GenericContentType(c)
    \/ GenericParseForm(c)
    \/ GenericError(c)
    \/ GenericDump(c)
    \/ HomeContentType(c)
    \/ HomeReadFile(c)
    \/ HomeError(c)
    \/ HomeWrite(c)
    \/ ItemCookie(c)
    \/ ItemContentType(c)
    \/ ItemData(c)
    \/ ItemMatch(c)
    \/ ItemName(c)
    \/ ItemMarshal(c)
    \/ ItemWrite1(c)
    \/ ItemWrite2(c)
    \/ ItemError(c)
    \/ Finish(c)
    \/ Close(c)

Main ==
    \/ LogListening
    \/ ListenOK
    \/ ListenFail
    \/ LogFatal

\* One connection, every request of Requests.
Next ==
    \/ Main
    \/ ChangeFile(FileStates)
    \/ \E c \in SingleConn : Accept(c, Requests)
    \/ \E c \in SingleConn : Handle(c)

Spec == Init /\ [][Next]_vars

\* The requests in flight together in SpecConc: each handler's success and
\* error outcome, a redirected path and an unregistered one.
ConcRequests ==
    {MakeRequest(sh, p) :
        sh \in {x \in Shapes : x.rawQuery = <<>>},
        p \in {HomePattern,
               ItemPattern \o <<"a">>,
               ItemPattern \o <<"7", "_">>,
               ItemPattern \o <<"a", "-">>,
               <<"/", "i", "t", "e", "m">>,
               <<"/", "o", "t", "h", "e", "r">>}}
    \cup {MakeRequest(sh, GenericPattern \o <<"a">>) :
             sh \in {x \in Shapes : x.rawQuery = <<"%zz">>}}

\* MaxInFlight connections served concurrently, their steps interleaved.
NextConc ==
    \/ Main
    \/ ChangeFile(ConcFileStates)
    \/ \E c \in ConcConns : Accept(c, ConcRequests)
    \/ \E c \in ConcConns : Handle(c)

SpecConc == InitConc /\ [][NextConc]_vars

\* Spec, with main's log.Fatal taken once it is reached: main is a running
\* goroutine, nothing can hold it at the call.
SpecFair == Spec /\ WF_vars(LogFatal)

(* ============================================================== claims *)

Done(c) == conn[c].pc = "done"

Ran(c, h) == Done(c) /\ conn[c].h = h

Rest(path) == SubSeq(path, Len(ItemPattern) + 1, Len(path))

Canonical(path) == cleanPath(path) = path

HasSetCookie(header) ==
    \E i \in 1..Len(header["Set-Cookie"]) : header["Set-Cookie"][i] = CookieString

(* ------------------------------------------------------------------ C1 *)

ParseFails(req) ==
    \E i \in 1..Len(req.rawQuery) : req.rawQuery[i] = "%zz"

ParseErrorLine ==
    <<"error parsing url ", "invalid URL escape ", "\"", "%zz", "\"", "\n">>

\* C1: whenever GenericHandler has answered a request whose form does not
\* parse, the status is 500, the body holds the parse-error message, and no
\* line of the diagnostic dump is in the body.
C1_ParseErrorReplacesDump ==
    \A c \in DOMAIN conn :
        (Ran(c, "GenericHandler") /\ ParseFails(conn[c].req)) =>
            /\ resp[c].status = 500
            /\ Contains(resp[c].body, ParseErrorLine)
            /\ \A n \in 0..LastDumpLine :
                  ~Contains(resp[c].body, DumpLine(conn[c].req, conn[c].form, n))

(* ------------------------------------------------------------------ C2 *)

NotFoundBody == <<"404 page not found">>

NoJSONWritten(c) ==
    /\ ~Contains(resp[c].body, <<"{">>)
    /\ ~Contains(resp[c].body, <<"[">>)

Mismatch(path) ==
    /\ HasPrefix(path, ItemPattern)
    /\ \/ Rest(path) = <<>>
       \/ \E i \in 1..Len(Rest(path)) : Rest(path)[i] \notin {"a", "7", "_"}

\* C2 as stated: every request path under /item/ that does not match
\* ^/item/(\w+)$ is answered with status 404 and the body 404 page not found
\* (read with or without the line's terminator), and no JSON line.
C2_AsStated ==
    \A c \in DOMAIN conn :
        (Done(c) /\ Mismatch(conn[c].req.path)) =>
            /\ resp[c].status = 404
            /\ resp[c].body \in {NotFoundBody, NotFoundBody \o <<"\n">>}
            /\ NoJSONWritten(c)

\* C2, amended: a request path under /item/ that does not match
\* ^/item/(\w+)$ and is in canonical form (no empty, "." or ".." element) is
\* answered by ItemHandler with status 404 and the body 404 page not found
\* followed by a newline, the bytes of the mux's own not-found answer, and no
\* JSON line; a path that is not canonical is answered by the mux with a 301
\* redirect and no JSON line either.
C2_MismatchIs404 ==
    \A c \in DOMAIN conn :
        (Done(c) /\ Mismatch(conn[c].req.path)) =>
            IF Canonical(conn[c].req.path)
            THEN /\ conn[c].h = "ItemHandler"
                 /\ resp[c].status = 404
                 /\ resp[c].body = NotFoundBody \o <<"\n">>
                 /\ resp[c].body = NotFound(NewResponse).body
                 /\ NoJSONWritten(c)
            ELSE /\ conn[c].h = "Redirect"
                 /\ resp[c].status = 301
                 /\ NoJSONWritten(c)

C2_Witness ==
    \E c \in DOMAIN conn :
        /\ Ran(c, "ItemHandler")
        /\ conn[c].req.path = ItemPattern \o <<"a", "/">>
        /\ resp[c].status = 404

(* ------------------------------------------------------------------ C3 *)

Quoted(s) == <<"\"">> \o s \o <<"\"">>

ItemLine1(T) ==
    <<"{">> \o Quoted(<<"name">>) \o <<":">> \o Quoted(T) \o <<",">>
            \o Quoted(<<"what">>) \o <<":">> \o Quoted(<<"item">>) \o <<"}", "\n">>

ItemLine2(T) ==
    <<"[">> \o Quoted(ItemPattern \o T) \o <<",">> \o Quoted(T) \o <<",">>
            \o Quoted(<<"This is long JSON data for calculation for bytes.">>)
            \o <<"]", "\n">>

Tokens == SeqsUpTo({"a", "7", "_"}, MaxTail) \ {<<>>}

ReadFailed(c) == conn[c].err # <<>> \/ conn[c].fileRead = <<NoFile>>

\* C4: whenever HomeHandler has answered and reading home.html failed (the
\* file was missing, or the read returned an error), the status is 500, the
\* body contains "home.html file error" and the failure's description, and
\* the handler ran once for the request.
C4_ReadFailureIs500 ==
    \A c \in DOMAIN conn :
        (Ran(c, "HomeHandler") /\ ReadFailed(c)) =>
            /\ resp[c].status = 500
            /\ Contains(resp[c].body, <<"home.html file error">>)
            /\ conn[c].err # <<>>
            /\ Contains(resp[c].body, conn[c].err)
            /\ conn[c].fileRead = <<NoFile>> =>
                  Contains(resp[c].body,
                           <<"open home.html: no such file or directory">>)
            /\ conn[c].runs = 1

C4_Witness ==
    \E c \in DOMAIN conn :
        /\ Ran(c, "HomeHandler")
        /\ conn[c].fileRead = <<NoFile>>
        /\ resp[c].status = 500

(* ------------------------------------------------------------------ C5 *)

\* C5: whenever HomeHandler has answered and home.html was read without
\* error, the status is 200, the content type sent is text/html;
\* charset=utf-8, and the body is the content the file had when it was read.
C5_HomeServesFile ==
    \A c \in DOMAIN conn :
        (Ran(c, "HomeHandler") /\ ~ReadFailed(c)) =>
            /\ resp[c].status = 200
            /\ resp[c].sent["Content-Type"] = <<<<"text/html; charset=utf-8">>>>
            /\ resp[c].body = conn[c].fileRead[1].data

C5_Witness ==
    \E c \in DOMAIN conn :
        /\ Ran(c, "HomeHandler")
        /\ ~ReadFailed(c)
        /\ Len(resp[c].body) = 4

(* ------------------------------------------------------------------ C6 *)

InHandler(c, hs) == conn[c].h \in hs /\ conn[c].pc \notin {"idle", "dispatch"}

CookieOnly == [NewResponse EXCEPT !.header["Set-Cookie"] = <<CookieString>>]

\* C6: in GenericHandler and ItemHandler, once the status and headers are
\* sent (so before any body byte) they carry the Set-Cookie header for
\* testcookiename=testcookievalue, on the 200, 404 and 500 paths alike; every
\* finished response has been sent; and right after SetMyCookie the response
\* differs from a fresh one in that header only.
C6_CookieOnEveryResponse ==
    \A c \in DOMAIN conn :
        InHandler(c, {"GenericHandler", "ItemHandler"}) =>
            /\ resp[c].wroteHeader => HasSetCookie(resp[c].sent)
            /\ resp[c].body # <<>> => resp[c].wroteHeader
            /\ Done(c) => resp[c].wroteHeader /\ resp[c].status \in {200, 404, 500}
            /\ conn[c].pc \in {"G_ctype", "I_ctype"} => resp[c] = CookieOnly

C6_Witness ==
    \E c \in DOMAIN conn :
        /\ Ran(c, "ItemHandler")
        /\ resp[c].status = 404
        /\ HasSetCookie(resp[c].sent)

(* ------------------------------------------------------------------ C7 *)

RegisteredPrefixes ==
    {<<"/", "h", "o", "m", "e">>,
     <<"/", "i", "t", "e", "m", "/">>,
     <<"/", "g", "e", "n", "e", "r", "i", "c", "/">>}

Unregistered(path) == \A p \in RegisteredPrefixes : ~HasPrefix(path, p)

ProgramHandlers == {"HomeHandler", "ItemHandler", "GenericHandler"}

\* The runtime's default 404: no header of the program's, the fixed line.
Default404(c) ==
    /\ conn[c].h = "NotFound"
    /\ resp[c].status = 404
    /\ resp[c].body = NotFoundBody \o <<"\n">>
    /\ ~HasSetCookie(resp[c].sent)
    /\ resp[c].sent["Content-Type"] = <<<<"text/plain; charset=utf-8">>>>

MovedTo(c, target) ==
    /\ conn[c].h = "Redirect"
    /\ resp[c].status = 301
    /\ resp[c].sent["Location"] = <<URLString(target, conn[c].req.rawQuery)>>

\* A registered pattern with its trailing slash left off.
Slashless(path) == \E p \in RegisteredPrefixes : p = path \o <<"/">>

\* C7 as stated: every request whose path starts with none of /home, /item/,
\* /generic/ gets the default 404, and no handler of the program runs (here
\* for canonical paths alone, /item and /generic among them).
C7_AsStated ==
    \A c \in DOMAIN conn :
        (Done(c) /\ Unregistered(conn[c].req.path)
                 /\ Canonical(conn[c].req.path)) => Default404(c)

\* C7, amended: for a request whose path starts with none of /home, /item/,
\* /generic/, no handler of the program runs; the answer is the default 404
\* when the path is canonical and is not /item or /generic; /item and
\* /generic are answered with a 301 redirect to /item/ and /generic/, and a
\* path that is not canonical with a 301 redirect to its canonical form.
C7_UnregisteredPaths ==
    \A c \in DOMAIN conn :
        (Done(c) /\ Unregistered(conn[c].req.path)) =>
            /\ conn[c].h \notin ProgramHandlers
            /\ conn[c].data = NoData /\ conn[c].fileRead = <<>>
            /\ IF Slashless(cleanPath(conn[c].req.path))
               THEN MovedTo(c, cleanPath(conn[c].req.path) \o <<"/">>)
               ELSE IF ~Canonical(conn[c].req.path)
               THEN MovedTo(c, cleanPath(conn[c].req.path))
               ELSE Default404(c)

C7_Witness ==
    \E c \in DOMAIN conn :
        /\ Done(c)
        /\ conn[c].req.path = <<"/", "o", "t", "h", "e", "r", "/", "a">>
        /\ Default404(c)

(* ------------------------------------------------------------------ C8 *)

RouteOf(p) ==
    IF p = <<"/", "h", "o", "m", "e">> THEN "HomeHandler"
    ELSE IF p = <<"/", "i", "t", "e", "m", "/">> THEN "ItemHandler"
    ELSE "GenericHandler"

\* C8 as stated: every request whose path starts with /home, /item/ or
\* /generic/ is dispatched to that route's handler (here for canonical paths
\* alone, /home/a and /homea among them).
C8_AsStated ==
    \A c \in DOMAIN conn : \A p \in RegisteredPrefixes :
        (Done(c) /\ HasPrefix(conn[c].req.path, p)
                 /\ Canonical(conn[c].req.path)) => conn[c].h = RouteOf(p)

\* C8, amended: /item/ and /generic/ are prefix routes: every request whose
\* canonical path starts with one of them is dispatched to its handler.
\* /home is an exact route: HomeHandler runs for the path /home and for no
\* other path, and a canonical path such as /home/x or /homepage gets the
\* default 404.  A path that is not canonical is redirected, not dispatched.
C8_Routes ==
    \A c \in DOMAIN conn :
        Done(c) =>
            LET path == conn[c].req.path
            IN  /\ \A p \in RegisteredPrefixes \ {<<"/", "h", "o", "m", "e">>} :
                      (HasPrefix(path, p) /\ Canonical(path)) =>
                          conn[c].h = RouteOf(p)
                /\ conn[c].h = "HomeHandler" <=> path = <<"/", "h", "o", "m", "e">>
                /\ (HasPrefix(path, <<"/", "h", "o", "m", "e">>)
                    /\ path # <<"/", "h", "o", "m", "e">> /\ Canonical(path)) =>
                       Default404(c)
                /\ ~Canonical(path) => conn[c].h = "Redirect"

C8_Witness ==
    \E c \in DOMAIN conn :
        /\ Ran(c, "GenericHandler")
        /\ conn[c].req.path =
              <<"/", "g", "e", "n", "e", "r", "i", "c", "/", "a", "/">>

(* ------------------------------------------------------------------ C9 *)

\* What each handler writes for a request served alone, start to end.
RECURSIVE WriteDump(_, _, _, _)
WriteDump(w, req, form, n) ==
    IF n > LastDumpLine THEN w
    ELSE WriteDump(Write(w, DumpLine(req, form, n)), req, form, n + 1)

AloneGeneric(req) ==
    LET w1  == HeaderSet(SetMyCookie(NewResponse), "Content-type", <<"text/plain">>)
        err == ParseQueryErr(req.rawQuery)
        w2  == IF err # <<>>
               THEN HttpError(w1, <<"error parsing url ">> \o err, 500)
               ELSE w1
    IN  WriteDump(w2, req, ParseQueryForm(req.rawQuery), 0)

AloneItem(req) ==
    LET w1 == HeaderSet(SetMyCookie(NewResponse), "Content-type",
                        <<"application/json">>)
        m  == FindStringSubmatch(req.path)
    IN  IF Len(m) > 0
        THEN Write(Write(w1, ItemLine1(m[2])), ItemLine2(m[2]))
        ELSE HttpError(w1, <<"404 page not found">>, 404)

\* For /home the answer also depends on what the read of home.html returned.
AloneHome(data, err) ==
    LET w1 == HeaderSet(NewResponse, "Content-type", <<"text/html; charset=utf-8">>)
        w2 == IF err # <<>>
              THEN HttpError(w1, <<"home.html file error", " ">> \o err, 500)
              ELSE w1
    IN  Write(w2, data)

Alone(c) ==
    IF conn[c].h = "GenericHandler" THEN AloneGeneric(conn[c].req)
    ELSE IF conn[c].h = "ItemHandler" THEN AloneItem(conn[c].req)
    ELSE IF conn[c].h = "HomeHandler" THEN AloneHome(conn[c].webpage, conn[c].err)
    ELSE IF conn[c].h = "Redirect"
         THEN Redirect(NewResponse, conn[c].req.method, conn[c].url)
    ELSE NotFound(NewResponse)

IsError(c) == Done(c) /\ resp[c].status \in {404, 500}

\* C9: under every interleaving of the connections' steps, a finished
\* response is the one its request gets when served alone (for /home, with
\* what its own read of home.html returned, which is a possible outcome of
\* reading the file as it was then); the handler ran once for it; a step that
\* leaves a connection where it is leaves its response as it is; and once
\* serving, the server is serving ever after, whatever the outcomes.
C9_RequestsAreIndependent ==
    /\ [](\A c \in DOMAIN conn :
            Done(c) =>
                /\ resp[c] = Alone(c)
                /\ conn[c].h = MuxHandler(conn[c].req).h
                /\ conn[c].runs = 1
                /\ conn[c].h = "HomeHandler" =>
                      [data |-> conn[c].webpage, err |-> conn[c].err]
                          \in ReadOutcomes(conn[c].fileRead[1]))
    /\ [][\A c \in DOMAIN conn : conn'[c] = conn[c] => resp'[c] = resp[c]]_vars
    /\ [][mainpc = "serving" => mainpc' = "serving"]_vars

\* Two requests finished side by side, one with an error, one with its data.
C9_Witness ==
    \E c, d \in DOMAIN conn :
        /\ c # d
        /\ IsError(c) /\ conn[c].h = "GenericHandler"
        /\ Ran(d, "ItemHandler") /\ resp[d].status = 200
        /\ conn[d].req.path = ItemPattern \o <<"a">>

(* ----------------------------------------------------------------- C10 *)

FatalLine == <<"ListenAndServe error: ", "bind: address already in use">>

NothingServed ==
    \A c \in DOMAIN conn : conn[c] = IdleConn /\ resp[c] = NewResponse

\* C10: ListenAndServe is called at most once; when it fails to bind, main
\* logs the error and exits with a status other than 0, and no
\* request is served before or after; a failed start is never followed by
\* listening or serving, it leads to the exit; and a server that serves keeps
\* serving.
C10_BindFailureIsFatal ==
    /\ [](listens <= 1)
    /\ [](mainpc \in {"failed", "exited"} => listens = 1 /\ NothingServed)
    /\ [](mainpc = "exited" =>
             /\ exitCode # 0
             /\ logged[Len(logged)] = FatalLine)
    /\ [][(mainpc \in {"failed", "exited"}) => (mainpc' \in {"failed", "exited"})]_vars
    /\ [][mainpc = "exited" => mainpc' = "exited"]_vars
    /\ [][mainpc = "serving" => mainpc' = "serving"]_vars
    /\ (mainpc = "failed" ~> mainpc = "exited")

C10_Witness == mainpc = "exited" /\ exitCode = 1 /\ listens = 1

====
